---- MODULE Spec2Model ----
(***************************************************************************)
(* Model of the OAuth gateway of src/index.js: the session credential      *)
(* (jsonwebtoken sign / verify / decode as the handlers use them), the     *)
(* auth middleware, the five route handlers, and the client side of the    *)
(* `token` cookie (cookie store, responses in flight).                     *)
(*                                                                         *)
(* Time is the server clock in whole seconds, floor(Date.now() / 1000),    *)
(* which is all that jsonwebtoken reads.                                   *)
(***************************************************************************)
EXTENDS Integers, Sequences, FiniteSets, TLC

(***************************************************************************)
(* Configuration (src/index.js:11-21).                                     *)
(***************************************************************************)
tokenExpiration == 36000

tokenSecret == "TOKEN_SECRET"

\* a signing key that is not the configured one
otherSecret == "ANOTHER_SECRET"

(***************************************************************************)
(* Bounds of the model.                                                    *)
(***************************************************************************)
\* number of times the clock advances
MaxTicks == 2

\* responses that may be in flight to the client at once
MaxInFlight == 2

\* longest list the downstream resource returns
MaxPosts == 20

\* credentials the server signs in one run
MaxIssued == 2

\* amounts by which the clock advances: one second, and one second less than
\* the credential lifetime (so that exp - 1, exp and exp + 1 are all reached)
TickSteps == {1, tokenExpiration - 1}

(***************************************************************************)
(* Values.                                                                 *)
(***************************************************************************)
\* JavaScript's undefined, for a claim the identity token does not carry
Undefined == "<undefined>"

Fields == {"name", "email", "picture"}

\* claims an identity token of the provider may carry
ClaimSets ==
  { [name |-> "Ann", email |-> "ann@example.org", picture |-> "ann.png"],
    [name |-> "Bob", email |-> "bob@example.org", picture |-> Undefined] }

\* JSON.stringify followed by JSON.parse: members whose value is undefined
\* are dropped
JsonUser(u) == [f \in {k \in DOMAIN u : u[k] # Undefined} |-> u[f]]

\* req.cookies.token when the request has no `token` cookie
NoCookie == [kind |-> "absent"]

\* `token=` with an empty value
EmptyCookie == [kind |-> "empty"]

\* a value that is not a JSON web token
GarbageCookie == [kind |-> "garbage"]

\* JavaScript truthiness of req.cookies.token
Truthy(c) == c.kind \notin {"absent", "empty"}

(***************************************************************************)
(* Token codec: jsonwebtoken with HS256.                                   *)
(***************************************************************************)
\* HMAC of the encoded payload under a key: equal exactly when key and
\* payload are equal
Hmac(secret, payload) == <<secret, payload>>

\* jwt.sign as it would be if the payload were built from name and email only
jwtSignNoPicture(user, secret, expiresIn, t) ==
  LET u       == JsonUser(user)
      payload == [user |-> [f \in DOMAIN u \ {"picture"} |-> u[f]],
                  iat |-> t, exp |-> t + expiresIn]
  IN  [kind |-> "jwt", payload |-> payload, sig |-> Hmac(secret, payload)]

\* jwt.sign({ user }, secret, { expiresIn }) at clock second t
jwtSign(user, secret, expiresIn, t) ==
  LET payload == [user |-> JsonUser(user), iat |-> t, exp |-> t + expiresIn]
  IN  [kind |-> "jwt", payload |-> payload, sig |-> Hmac(secret, payload)]

\* jwt.verify as it would be with { ignoreExpiration: true }
jwtVerifyIgnoresExpiration(token, secret, t) ==
  IF token.kind # "jwt"
    THEN [ok |-> FALSE, err |-> "JsonWebTokenError: jwt malformed"]
  ELSE IF token.sig # Hmac(secret, token.payload)
    THEN [ok |-> FALSE, err |-> "JsonWebTokenError: invalid signature"]
  ELSE [ok |-> TRUE, decoded |-> token.payload]

\* jwt.verify as it would be with the expiration compared by > instead of >=
jwtVerifyLate(token, secret, t) ==
  IF token.kind # "jwt"
    THEN [ok |-> FALSE, err |-> "JsonWebTokenError: jwt malformed"]
  ELSE IF token.sig # Hmac(secret, token.payload)
    THEN [ok |-> FALSE, err |-> "JsonWebTokenError: invalid signature"]
  ELSE IF t > token.payload.exp
    THEN [ok |-> FALSE, err |-> "TokenExpiredError: jwt expired"]
  ELSE [ok |-> TRUE, decoded |-> token.payload]

\* jwt.verify(token, secret) at clock second t: the decoded payload, or the
\* error thrown
jwtVerify(token, secret, t) ==
  IF token.kind # "jwt"
    THEN [ok |-> FALSE, err |-> "JsonWebTokenError: jwt malformed"]
  ELSE IF token.sig # Hmac(secret, token.payload)
    THEN [ok |-> FALSE, err |-> "JsonWebTokenError: invalid signature"]
  ELSE IF t >= token.payload.exp
    THEN [ok |-> FALSE, err |-> "TokenExpiredError: jwt expired"]
  ELSE [ok |-> TRUE, decoded |-> token.payload]


\* jwt.decode(id_token): the claims of the identity token, with no
\* signature check; null when the string is not a JSON web token
Null == [kind |-> "null"]

jwtDecode(id_token) ==
  IF id_token.kind = "jwt" THEN id_token.claims ELSE Null

(***************************************************************************)
(* Responses.                                                              *)
(***************************************************************************)
NoSetCookie == [op |-> "none"]

\* res.cookie('token', value, { maxAge, httpOnly, sameSite: 'None', secure })
SetCookie(value, maxAge) ==
  [op |-> "set", value |-> value, maxAge |-> maxAge, httpOnly |-> TRUE,
   sameSite |-> "None", secure |-> TRUE]

\* res.clearCookie('token')
ClearCookie == [op |-> "clear"]

Response(status, body, setCookie) ==
  [status |-> status, body |-> body, setCookie |-> setCookie]

\* what a handler did: its response and the outbound calls it made, in order
Handled(res, outbound) == [res |-> res, outbound |-> outbound]

Unauthorized == Response(401, [message |-> "Unauthorized"], NoSetCookie)

ServerError == Response(500, [message |-> "Server error"], NoSetCookie)

(***************************************************************************)
(* Middleware `auth` (src/index.js:54-72).                                 *)
(***************************************************************************)
\* auth as it would be with jwt.decode in the place of jwt.verify
authDecodesOnly(cookie, t) ==
  IF ~Truthy(cookie)
    THEN [admit |-> FALSE, res |-> Unauthorized]
  ELSE IF cookie.kind = "jwt"
    THEN [admit |-> TRUE, user |-> cookie.payload.user]
    ELSE [admit |-> FALSE, res |-> Unauthorized]

\* auth as it would be if the catch passed the error's message on
authLeaksError(cookie, t) ==
  IF ~Truthy(cookie)
    THEN [admit |-> FALSE, res |-> Unauthorized]
  ELSE LET v == jwtVerify(cookie, tokenSecret, t)
       IN  IF v.ok
             THEN [admit |-> TRUE, user |-> v.decoded.user]
             ELSE [admit |-> FALSE,
                   res |-> Response(401, [message |-> v.err], NoSetCookie)]

auth(cookie, t) ==
  IF ~Truthy(cookie)
    THEN [admit |-> FALSE, res |-> Unauthorized]
  ELSE LET v == jwtVerify(cookie, tokenSecret, t)
       IN  IF v.ok
             THEN [admit |-> TRUE, user |-> v.decoded.user]
             ELSE [admit |-> FALSE, res |-> Unauthorized]

(***************************************************************************)
(* GET /auth/token (src/index.js:96-132).                                  *)
(***************************************************************************)
\* query `code`: absent, empty, or a code
Codes == {"<absent>", "", "4/0AbCd"}

\* the code check as it would be with `code === undefined` for `!code`
TruthyCodeDefined(code) == code # "<absent>"

TruthyCode(code) == code \notin {"<absent>", ""}

\* the provider's answer to the POST to its token endpoint
IdTokens ==
  {[kind |-> "absent"], [kind |-> "empty"], [kind |-> "undecodable"]}
    \cup {[kind |-> "jwt", claims |-> c] : c \in ClaimSets}

ProviderReplies ==
  {[kind |-> "network_error"], [kind |-> "non2xx"]}
    \cup {[kind |-> "ok", id_token |-> i] : i \in IdTokens}

PostToProvider == [method |-> "POST", url |-> "https://oauth2.googleapis.com/token"]

\* the handler as it would be with one retry of a failed provider call
AuthTokenHandlerRetries(code, reply, t) ==
  IF ~TruthyCode(code)
    THEN Handled(Response(400, [message |-> "Authorization code must be provided"],
                          NoSetCookie), <<>>)
  ELSE IF reply.kind # "ok"
    THEN Handled(ServerError, <<PostToProvider, PostToProvider>>)
  ELSE IF reply.id_token.kind \in {"absent", "empty"}
    THEN Handled(Response(400, [message |-> "Authorization error"], NoSetCookie),
                 <<PostToProvider>>)
  ELSE IF jwtDecode(reply.id_token) = Null
    THEN Handled(ServerError, <<PostToProvider>>)
  ELSE LET user  == jwtDecode(reply.id_token)
           token == jwtSign(user, tokenSecret, tokenExpiration, t)
       IN  Handled(Response(200, [user |-> JsonUser(user)],
                            SetCookie(token, tokenExpiration * 1000)),
                   <<PostToProvider>>)

\* the handler as it would be if an identity token that does not decode were
\* answered like a missing one
AuthTokenHandlerUndecodable400(code, reply, t) ==
  IF ~TruthyCode(code)
    THEN Handled(Response(400, [message |-> "Authorization code must be provided"],
                          NoSetCookie), <<>>)
  ELSE IF reply.kind # "ok"
    THEN Handled(ServerError, <<PostToProvider>>)
  ELSE IF reply.id_token.kind \in {"absent", "empty"} \/ jwtDecode(reply.id_token) = Null
    THEN Handled(Response(400, [message |-> "Authorization error"], NoSetCookie),
                 <<PostToProvider>>)
  ELSE LET user  == jwtDecode(reply.id_token)
           token == jwtSign(user, tokenSecret, tokenExpiration, t)
       IN  Handled(Response(200, [user |-> JsonUser(user)],
                            SetCookie(token, tokenExpiration * 1000)),
                   <<PostToProvider>>)

\* the handler as it would be without the check of id_token: decoding a
\* missing identity token throws, and the catch answers 500
AuthTokenHandlerNoIdTokenCheck(code, reply, t) ==
  IF ~TruthyCode(code)
    THEN Handled(Response(400, [message |-> "Authorization code must be provided"],
                          NoSetCookie), <<>>)
  ELSE IF reply.kind # "ok"
    THEN Handled(ServerError, <<PostToProvider>>)
  ELSE IF jwtDecode(reply.id_token) = Null
    THEN Handled(ServerError, <<PostToProvider>>)
  ELSE LET user  == jwtDecode(reply.id_token)
           token == jwtSign(user, tokenSecret, tokenExpiration, t)
       IN  Handled(Response(200, [user |-> JsonUser(user)],
                            SetCookie(token, tokenExpiration * 1000)),
                   <<PostToProvider>>)

AuthTokenHandler(code, reply, t) ==
  IF ~TruthyCode(code)
    THEN Handled(Response(400, [message |-> "Authorization code must be provided"],
                          NoSetCookie), <<>>)
  ELSE IF reply.kind # "ok"
    THEN Handled(ServerError, <<PostToProvider>>)
  ELSE IF reply.id_token.kind \in {"absent", "empty"}
    THEN Handled(Response(400, [message |-> "Authorization error"], NoSetCookie),
                 <<PostToProvider>>)
  ELSE IF jwtDecode(reply.id_token) = Null
    THEN Handled(ServerError, <<PostToProvider>>)
  ELSE LET user  == jwtDecode(reply.id_token)
           token == jwtSign(user, tokenSecret, tokenExpiration, t)
       IN  Handled(Response(200, [user |-> JsonUser(user)],
                            SetCookie(token, tokenExpiration * 1000)),
                   <<PostToProvider>>)

(***************************************************************************)
(* GET /auth/logged_in (src/index.js:135-157).                             *)
(***************************************************************************)
\* the handler as it would be if it re-signed name and picture only
LoggedInHandlerDropsEmail(cookie, t) ==
  IF ~Truthy(cookie)
    THEN Handled(Response(200, [loggedIn |-> FALSE], NoSetCookie), <<>>)
  ELSE LET v == jwtVerify(cookie, tokenSecret, t)
       IN  IF v.ok
             THEN LET u        == v.decoded.user
                      newToken == jwtSign([f \in DOMAIN u \ {"email"} |-> u[f]],
                                          tokenSecret, tokenExpiration, t)
                  IN  Handled(Response(200,
                                       [loggedIn |-> TRUE, user |-> v.decoded.user],
                                       SetCookie(newToken, tokenExpiration * 1000)),
                              <<>>)
             ELSE Handled(Response(200, [loggedIn |-> FALSE], NoSetCookie), <<>>)

\* the handler as it would be if it kept the presented credential instead of
\* signing a new one
LoggedInHandlerKeeps(cookie, t) ==
  IF ~Truthy(cookie)
    THEN Handled(Response(200, [loggedIn |-> FALSE], NoSetCookie), <<>>)
  ELSE LET v == jwtVerify(cookie, tokenSecret, t)
       IN  IF v.ok
             THEN Handled(Response(200,
                                   [loggedIn |-> TRUE, user |-> v.decoded.user],
                                   SetCookie(cookie, tokenExpiration * 1000)),
                          <<>>)
             ELSE Handled(Response(200, [loggedIn |-> FALSE], NoSetCookie), <<>>)

\* the handler as it would be without its try / catch: a failed verification
\* reaches Express's error handler
LoggedInHandlerThrows(cookie, t) ==
  IF ~Truthy(cookie)
    THEN Handled(Response(200, [loggedIn |-> FALSE], NoSetCookie), <<>>)
  ELSE LET v == jwtVerify(cookie, tokenSecret, t)
       IN  IF v.ok
             THEN LET newToken == jwtSign(v.decoded.user, tokenSecret,
                                          tokenExpiration, t)
                  IN  Handled(Response(200,
                                       [loggedIn |-> TRUE, user |-> v.decoded.user],
                                       SetCookie(newToken, tokenExpiration * 1000)),
                              <<>>)
             ELSE Handled(ServerError, <<>>)

LoggedInHandler(cookie, t) ==
  IF ~Truthy(cookie)
    THEN Handled(Response(200, [loggedIn |-> FALSE], NoSetCookie), <<>>)
  ELSE LET v == jwtVerify(cookie, tokenSecret, t)
       IN  IF v.ok
             THEN LET newToken == jwtSign(v.decoded.user, tokenSecret,
                                          tokenExpiration, t)
                  IN  Handled(Response(200,
                                       [loggedIn |-> TRUE, user |-> v.decoded.user],
                                       SetCookie(newToken, tokenExpiration * 1000)),
                              <<>>)
             ELSE Handled(Response(200, [loggedIn |-> FALSE], NoSetCookie), <<>>)

(***************************************************************************)
(* POST /auth/logout (src/index.js:160-163).                               *)
(***************************************************************************)
\* the handler as it would be without the clearCookie call
LogoutHandlerKeepsCookie ==
  Handled(Response(200, [message |-> "Logged out"], NoSetCookie), <<>>)

LogoutHandler ==
  Handled(Response(200, [message |-> "Logged out"], ClearCookie), <<>>)

(***************************************************************************)
(* GET /user/posts (src/index.js:166-175).                                 *)
(***************************************************************************)
PostsLimit == 5

\* data.slice(1, n + 1): the window shifted by one
SliceFromSecond(data, n) ==
  SubSeq(data, 2, IF Len(data) < n + 1 THEN Len(data) ELSE n + 1)

\* data.slice(0, n)
Slice(data, n) == SubSeq(data, 1, IF Len(data) < n THEN Len(data) ELSE n)

\* the downstream resource's answer: a failure, or a list of posts (here
\* their ids), ascending or descending
UpstreamReplies ==
  {[kind |-> "error"]}
    \cup {[kind |-> "ok", data |-> [i \in 1..n |-> i]] : n \in 0..MaxPosts}
    \cup {[kind |-> "ok", data |-> [i \in 1..MaxPosts |-> MaxPosts + 1 - i]]}

GetPosts == [method |-> "GET", url |-> "https://jsonplaceholder.typicode.com/posts"]

\* the handler as it would be if it renewed the session like the login-status
\* poll does
UserPostsHandlerRefreshes(cookie, upstream, t) ==
  LET a == auth(cookie, t)
  IN  IF ~a.admit
        THEN Handled(a.res, <<>>)
      ELSE IF upstream.kind # "ok"
        THEN Handled(ServerError, <<GetPosts>>)
      ELSE Handled(Response(200, [posts |-> Slice(upstream.data, PostsLimit)],
                            SetCookie(jwtSign(a.user, tokenSecret,
                                              tokenExpiration, t),
                                      tokenExpiration * 1000)),
                   <<GetPosts>>)

UserPostsHandler(cookie, upstream, t) ==
  LET a == auth(cookie, t)
  IN  IF ~a.admit
        THEN Handled(a.res, <<>>)
      ELSE IF upstream.kind # "ok"
        THEN Handled(ServerError, <<GetPosts>>)
      ELSE Handled(Response(200, [posts |-> Slice(upstream.data, PostsLimit)],
                            NoSetCookie),
                   <<GetPosts>>)

(***************************************************************************)
(* GET /auth/url (src/index.js:75-93).  A string is a sequence of pieces:  *)
(* a run of unreserved characters, or one reserved character.  A value of  *)
(* process.env is a string or undefined.                                   *)
(***************************************************************************)
UndefinedText == [defined |-> FALSE]
Text(s) == [defined |-> TRUE, chars |-> s]

Reserved == {" ", "&", "=", ":", "/", "?"}

\* encodeURIComponent of one reserved character
PercentCode(ch) ==
  CASE ch = " " -> "%20"
    [] ch = "&" -> "%26"
    [] ch = "=" -> "%3D"
    [] ch = ":" -> "%3A"
    [] ch = "/" -> "%2F"
    [] ch = "?" -> "%3F"

\* query-string encodes keys and values with strict-uri-encode
strictUriEncode(s) ==
  [i \in 1..Len(s) |-> IF s[i] \in Reserved THEN PercentCode(s[i]) ELSE s[i]]

\* decodeURIComponent
decodeComponent(s) ==
  [i \in 1..Len(s) |->
     IF \E ch \in Reserved : PercentCode(ch) = s[i]
       THEN CHOOSE ch \in Reserved : PercentCode(ch) = s[i]
       ELSE s[i]]

\* the keys of the authorization request in the order of Array.prototype.sort
SortedKeys ==
  <<"access_type", "client_id", "prompt", "redirect_uri", "response_type",
    "scope", "state">>

RECURSIVE Join(_)
\* Array.prototype.join('&')
Join(parts) ==
  IF Len(parts) = 0 THEN <<>>
  ELSE IF Len(parts) = 1 THEN parts[1]
  ELSE parts[1] \o <<"&">> \o Join(Tail(parts))

\* queryString.stringify: members whose value is undefined are skipped, the
\* keys are sorted, each member is written as key=value with both encoded
stringify(object) ==
  LET keys == SelectSeq(SortedKeys,
                        LAMBDA k : k \in DOMAIN object /\ object[k].defined)
  IN  Join([i \in 1..Len(keys) |->
              strictUriEncode(<<keys[i]>>) \o <<"=">>
                \o strictUriEncode(object[keys[i]].chars)])

authUrl == <<"https", ":", "/", "/", "accounts.google.com", "/", "o", "/",
             "oauth2", "/", "auth">>

\* a bug: the consent prompt is left out
getAuthUrlNoPrompt(cfg) ==
  authUrl \o <<"?">> \o
  stringify([client_id     |-> cfg.clientId,
             redirect_uri  |-> cfg.redirectUrl,
             response_type |-> Text(<<"code">>),
             scope         |-> Text(<<"openid", " ", "profile", " ", "email">>),
             access_type   |-> Text(<<"offline">>),
             state         |-> Text(<<"standard_oauth">>)])

getAuthUrl(cfg) ==
  authUrl \o <<"?">> \o
  stringify([client_id     |-> cfg.clientId,
             redirect_uri  |-> cfg.redirectUrl,
             response_type |-> Text(<<"code">>),
             scope         |-> Text(<<"openid", " ", "profile", " ", "email">>),
             access_type   |-> Text(<<"offline">>),
             state         |-> Text(<<"standard_oauth">>),
             prompt        |-> Text(<<"consent">>)])

AuthUrlHandler(cfg) ==
  Handled(Response(200, [url |-> getAuthUrl(cfg)], NoSetCookie), <<>>)

\* what GOOGLE_CLIENT_ID and REDIRECT_URL may be set to: nothing, the empty
\* string, an ordinary value, a value with reserved characters
ClientIds ==
  {UndefinedText, Text(<<>>), Text(<<"1234-abc.apps.googleusercontent.com">>),
   Text(<<"my", " ", "app", "&", "prompt", "=", "none">>)}
RedirectUrls ==
  {UndefinedText,
   Text(<<"http", ":", "/", "/", "localhost", ":", "5000", "/", "callback">>)}
Configs == [clientId : ClientIds, redirectUrl : RedirectUrls]

\* the configuration of a complete deployment
DeployedConfig ==
  [clientId    |-> Text(<<"1234-abc.apps.googleusercontent.com">>),
   redirectUrl |-> Text(<<"http", ":", "/", "/", "localhost", ":", "5000", "/",
                          "callback">>)]

(***************************************************************************)
(* State.                                                                  *)
(***************************************************************************)
VARIABLES
  config,       \* what the environment set at startup: client id, redirect URL
  now,          \* the server clock, floor(Date.now() / 1000)
  ticks,        \* how often the clock has advanced
  jar,          \* the client's cookie store: the value of its `token` cookie
  pending,      \* responses on their way to the client: endpoint and Set-Cookie
  served,       \* the exchange the server completed in the latest step, if any
  issued,       \* history: every credential the server has signed
  origin,       \* history: for each credential, the exchange its chain began with
  afterLogout,  \* history: a logout response was applied and no request sent since
  loggedOut,    \* history: a logout response was applied, and since then no
                \* response of GET /auth/token and no cookie of the client's own
  probe         \* history: an earlier exchange that an observer keeps to
                \* compare later exchanges with

vars ==
  <<config, now, ticks, jar, pending, served, issued, origin, afterLogout,
    loggedOut, probe>>

NoReply == [kind |-> "none"]

\* the latest step was not a request
NotServed ==
  [ep |-> "none", cookie |-> NoCookie, code |-> "<absent>", reply |-> NoReply,
   at |-> 0, afterLogout |-> FALSE, origins |-> {}, issuedBefore |-> {},
   res |-> Response(0, <<>>, NoSetCookie), outbound |-> <<>>]

\* what an observer keeps of an exchange: the request, the time, the reply of
\* the external service, the response, and the credentials signed before it
Kept(x) ==
  [ep |-> x.ep, cookie |-> x.cookie, code |-> x.code, reply |-> x.reply,
   at |-> x.at, res |-> x.res, outbound |-> x.outbound,
   issuedBefore |-> x.issuedBefore]

\* the state after startup, whatever the environment
Started ==
  /\ now = 0
  /\ ticks = 0
  /\ jar = NoCookie
  /\ pending = {}
  /\ served = NotServed
  /\ issued = {}
  /\ origin = {}
  /\ afterLogout = FALSE
  /\ loggedOut = FALSE
  /\ probe = Kept(NotServed)

Init == Started /\ config = DeployedConfig

\* startup in an environment that sets, or leaves unset, any of the variables
InitAnyConfig == Started /\ config \in Configs

\* the credentials a handler's response carries
Minted(h) == IF h.res.setCookie.op = "set" THEN {h.res.setCookie.value} ELSE {}

\* the exchanges (profile of the identity token, second of the exchange) that
\* the chains of issuances leading to credential c began with
OriginsOf(c) ==
  {[profile |-> o.profile, since |-> o.since] : o \in {x \in origin : x.cred = c}}

\* the chain records of the credentials a handler's response carries: a new
\* chain for GET /auth/token, the chains of the presented cookie otherwise
Chained(ep, reply, h) ==
  IF ep = "token"
    THEN {[cred |-> c, profile |-> reply.id_token.claims, since |-> now] :
            c \in Minted(h)}
    ELSE {[cred |-> c, profile |-> o.profile, since |-> o.since] :
            c \in Minted(h), o \in OriginsOf(jar)}

\* the client may send a request while fewer than k responses are in flight
MaySend(k) == Cardinality(pending) < k

\* The client sends a request with the cookie of its store, the server handles
\* it (h), and the response sets off to the client.  `served` records what the
\* request carried and what the server did.
Serve(k, ep, code, reply, h) ==
  /\ MaySend(k)
  /\ Cardinality(issued \cup Minted(h)) <= MaxIssued
  /\ served' = [ep |-> ep, cookie |-> jar, code |-> code, reply |-> reply,
                at |-> now, afterLogout |-> afterLogout,
                origins |-> OriginsOf(jar), issuedBefore |-> issued,
                res |-> h.res, outbound |-> h.outbound]
  /\ pending' = pending \cup {[ep |-> ep, setCookie |-> h.res.setCookie]}
  /\ issued' = issued \cup Minted(h)
  /\ origin' = origin \cup Chained(ep, reply, h)
  /\ afterLogout' = FALSE
  /\ UNCHANGED <<config, now, ticks, jar, loggedOut, probe>>

AuthUrl(k) ==
  Serve(k, "url", "<absent>", NoReply, AuthUrlHandler(config))

\* a server with memory: it keeps the credentials it has signed and refuses an
\* exchange that would sign one of them again
AuthTokenOnce(k) ==
  \E code \in Codes :
    \E reply \in IF TruthyCode(code) THEN ProviderReplies ELSE {NoReply} :
      Serve(k, "token", code, reply,
            IF Minted(AuthTokenHandler(code, reply, now)) \cap issued # {}
              THEN Handled(Response(400, [message |-> "Authorization code already used"],
                                    NoSetCookie),
                           AuthTokenHandler(code, reply, now).outbound)
              ELSE AuthTokenHandler(code, reply, now))

\* the provider is called, and answers, only when the request carries a code
AuthToken(k) ==
  \E code \in Codes :
    \E reply \in IF TruthyCode(code) THEN ProviderReplies ELSE {NoReply} :
      Serve(k, "token", code, reply, AuthTokenHandler(code, reply, now))

\* the logout route as it would be behind the auth middleware
LogoutGated(k) ==
  Serve(k, "logout", "<absent>", NoReply,
        IF auth(jar, now).admit THEN LogoutHandler
        ELSE Handled(auth(jar, now).res, <<>>))

LoggedIn(k) ==
  Serve(k, "logged_in", "<absent>", NoReply, LoggedInHandler(jar, now))

Logout(k) ==
  Serve(k, "logout", "<absent>", NoReply, LogoutHandler)

\* the downstream resource is called, and answers, only when auth admits
UserPosts(k) ==
  \E upstream \in IF auth(jar, now).admit THEN UpstreamReplies ELSE {NoReply} :
    Serve(k, "posts", "<absent>", upstream,
          UserPostsHandler(jar, upstream, now))

\* the cookie store after a response's Set-Cookie header is applied
ApplySetCookie(j, sc) ==
  CASE sc.op = "set"   -> sc.value
    [] sc.op = "clear" -> NoCookie
    [] OTHER           -> j

\* a response reaches the client, which applies its Set-Cookie header
Deliver ==
  \E x \in pending :
    /\ pending' = pending \ {x}
    /\ jar' = ApplySetCookie(jar, x.setCookie)
    /\ afterLogout' = IF x.ep = "logout" THEN TRUE ELSE afterLogout
    /\ loggedOut' = CASE x.ep = "logout" -> TRUE
                      [] x.ep = "token" /\ x.setCookie.op = "set" -> FALSE
                      [] OTHER -> loggedOut
    /\ served' = NotServed
    /\ UNCHANGED <<config, now, ticks, issued, origin, probe>>

\* another identity than the one a credential carries
OtherUser(user) == CHOOSE u \in {JsonUser(c) : c \in ClaimSets} : u # user

\* credentials a client can make up from one it has seen: the payload altered
\* (a later expiration, another user) under the old signature
Altered(c) ==
  {[c EXCEPT !.payload.exp = @ + tokenExpiration],
   [c EXCEPT !.payload.user = OtherUser(@)]}

\* a credential the client signs with its own key, for a lifetime beyond the
\* model's horizon
Forged ==
  jwtSign(CHOOSE u \in ClaimSets : TRUE, otherSecret,
          (MaxTicks + 1) * tokenExpiration, 0)

\* what a client can make of its `token` cookie: drop it (as it does when the
\* max-age has run out), or store an empty one, a malformed one, one the server
\* signed earlier, an altered one, one signed with a key of the client's own
ClientCookies ==
  {NoCookie, EmptyCookie, GarbageCookie}
    \cup issued
    \cup UNION {Altered(c) : c \in issued}
    \cup {Forged}

\* the client replaces the cookie of its store by one of its own choice
ClientSetsCookie ==
  /\ \E c \in ClientCookies \ {jar} : jar' = c
  /\ afterLogout' = FALSE
  /\ loggedOut' = FALSE
  /\ served' = NotServed
  /\ UNCHANGED <<config, now, ticks, pending, issued, origin, probe>>

\* the clock advances; the observer drops an exchange whose second is over,
\* but keeps an authorization URL, which it compares across seconds
Tick ==
  /\ ticks < MaxTicks
  /\ \E d \in TickSteps : now' = now + d
  /\ ticks' = ticks + 1
  /\ served' = NotServed
  /\ probe' = IF probe.ep = "url" THEN probe ELSE Kept(NotServed)
  /\ UNCHANGED <<config, jar, pending, issued, origin, afterLogout, loggedOut>>

\* a client that awaits each response before it sends the next request
Next ==
  \/ AuthUrl(1)
  \/ AuthToken(1)
  \/ LoggedIn(1)
  \/ Logout(1)
  \/ UserPosts(1)
  \/ Deliver
  \/ ClientSetsCookie
  \/ Tick

Spec == Init /\ [][Next]_vars

\* a client that sends requests while earlier responses are still in flight
NextConcurrent ==
  \/ AuthUrl(MaxInFlight)
  \/ AuthToken(MaxInFlight)
  \/ LoggedIn(MaxInFlight)
  \/ Logout(MaxInFlight)
  \/ UserPosts(MaxInFlight)
  \/ Deliver
  \/ ClientSetsCookie
  \/ Tick

SpecConcurrent == Init /\ [][NextConcurrent]_vars

\* an observer keeps the exchange just served, to compare with what the server
\* answers to later requests
Remember ==
  /\ served.ep # "none"
  /\ probe # Kept(served)
  /\ probe' = Kept(served)
  /\ UNCHANGED <<config, now, ticks, jar, pending, served, issued, origin,
                 afterLogout, loggedOut>>

\* a client whose exchanges of one second are observed
NextObserved ==
  \/ AuthUrl(1)
  \/ AuthToken(1)
  \/ LoggedIn(1)
  \/ Logout(1)
  \/ UserPosts(1)
  \/ Deliver
  \/ ClientSetsCookie
  \/ Remember

SpecObserved == Init /\ [][NextObserved]_vars

\* a client that asks for the authorization URL, polls and logs out, against a
\* server started in any environment
NextAnyConfig ==
  \/ AuthUrl(1)
  \/ LoggedIn(1)
  \/ Logout(1)
  \/ Deliver
  \/ Tick
  \/ Remember

SpecAnyConfig == InitAnyConfig /\ [][NextAnyConfig]_vars

(***************************************************************************)
(* Properties.                                                             *)
(***************************************************************************)
\* a credential signed with the configured secret and not altered since
SignedUnaltered(c) == c.kind = "jwt" /\ c.sig = Hmac(tokenSecret, c.payload)

\* such a credential, presented before its expiration
ValidAt(c, t) == SignedUnaltered(c) /\ t < c.payload.exp

\* C1: GET /user/posts is admitted (the downstream GET is issued, the status
\* is not 401) exactly when the `token` cookie holds a credential signed with
\* the configured secret, unaltered and unexpired; in every other case the
\* response is 401 and no downstream call is made.
PostsAdmittedIffValid ==
  served.ep = "posts" =>
    IF ValidAt(served.cookie, served.at)
      THEN served.res.status # 401 /\ served.outbound = <<GetPosts>>
      ELSE served.res.status = 401 /\ served.outbound = <<>>

\* C1 happens: a request is admitted in the last second before the
\* credential expires
PostsAdmittedWitness ==
  /\ served.ep = "posts"
  /\ served.res.status = 200
  /\ served.cookie.kind = "jwt"
  /\ served.at = served.cookie.payload.exp - 1

\* C2 as stated: a successful poll issues a credential that expires strictly
\* later than the credential presented.
RefreshStrictlyLater ==
  (served.ep = "logged_in" /\ served.res.setCookie.op = "set") =>
    served.res.setCookie.value.payload.exp > served.cookie.payload.exp

\* C2 amended: a successful poll issues a credential that expires no earlier
\* than the credential presented, and strictly later exactly when the poll
\* happens in a later clock second than the one the presented credential was
\* issued in (the expiration moves by the seconds elapsed since then).
RefreshLaterBySecondsElapsed ==
  (served.ep = "logged_in" /\ served.res.body.loggedIn)
    => /\ served.cookie.kind = "jwt"
       /\ served.res.setCookie.op = "set"
       /\ LET old == served.cookie.payload
              new == served.res.setCookie.value.payload
          IN  /\ new.exp >= old.exp
              /\ new.exp - old.exp = served.at - old.iat
              /\ (new.exp > old.exp) <=> (served.at > old.iat)

\* C2 happens: a successful poll in a later second than the issuance, and
\* the new credential expires later
RefreshLaterWitness ==
  /\ served.ep = "logged_in"
  /\ served.res.setCookie.op = "set"
  /\ served.at > served.cookie.payload.iat
  /\ served.res.setCookie.value.payload.exp > served.cookie.payload.exp

LoggedInNeverErrors ==
  served.ep = "logged_in" =>
    /\ served.res.status = 200
    /\ IF ValidAt(served.cookie, served.at)
         THEN served.res.body = [loggedIn |-> TRUE,
                                 user |-> served.cookie.payload.user]
         ELSE /\ served.res.body = [loggedIn |-> FALSE]
              /\ served.res.setCookie = NoSetCookie

\* C4 happens: a poll with an expired credential is answered 200 with
\* {loggedIn: false}
LoggedInExpiredWitness ==
  /\ served.ep = "logged_in"
  /\ SignedUnaltered(served.cookie)
  /\ served.at >= served.cookie.payload.exp
  /\ served.res.status = 200
  /\ served.res.body = [loggedIn |-> FALSE]

\* C5: GET /auth/token without a code, or with an empty one, answers 400,
\* sets no cookie and makes no call to the provider.
MissingCodeRejected ==
  (served.ep = "token" /\ served.code \in {"<absent>", ""}) =>
    /\ served.res.status = 400
    /\ served.res.setCookie = NoSetCookie
    /\ served.outbound = <<>>

\* C5 happens: an exchange request with an empty code is answered 400
MissingCodeWitness ==
  /\ served.ep = "token"
  /\ served.code = ""
  /\ served.res.status = 400

\* C6: when the provider's answer carries no id_token, GET /auth/token
\* answers 400 and sets no cookie; and whenever GET /auth/token sets the
\* cookie, it answers 200 with {user}, the user of the credential it set.
NoIdTokenRejected ==
  served.ep = "token" =>
    /\ (/\ served.code \notin {"<absent>", ""}
        /\ served.reply.kind = "ok"
        /\ served.reply.id_token.kind \in {"absent", "empty"})
         => (served.res.status = 400 /\ served.res.setCookie = NoSetCookie)
    /\ served.res.setCookie # NoSetCookie
         => /\ served.res.setCookie.op = "set"
            /\ served.res.status = 200
            /\ served.res.body = [user |-> served.res.setCookie.value.payload.user]

\* C6 happens: an exchange whose answer lacks the id_token is answered 400
NoIdTokenWitness ==
  /\ served.ep = "token"
  /\ served.reply.kind = "ok"
  /\ served.reply.id_token.kind = "absent"
  /\ served.res.status = 400
  /\ served.outbound = <<PostToProvider>>

\* C7: when the request is admitted and the downstream resource returns a
\* list of n posts, the response is 200 and its posts are the first
\* min(n, 5) entries of that list, in its order.
PostsAreFirstFive ==
  (served.ep = "posts" /\ served.reply.kind = "ok") =>
    /\ served.res.status = 200
    /\ LET data  == served.reply.data
           posts == served.res.body.posts
       IN  /\ Len(posts) = (IF Len(data) < 5 THEN Len(data) ELSE 5)
           /\ Len(posts) <= 5
           /\ \A i \in 1..Len(posts) : posts[i] = data[i]

\* C7 happens: the downstream list is longer than five and the response
\* carries five posts
PostsTruncatedWitness ==
  /\ served.ep = "posts"
  /\ served.reply.kind = "ok"
  /\ Len(served.reply.data) > 5
  /\ served.res.status = 200
  /\ Len(served.res.body.posts) = 5

\* clock seconds at which a credential may be presented
ClockSeconds ==
  {a + b * (tokenExpiration - 1) : a \in 0..(MaxTicks + 1), b \in 0..(MaxTicks + 1)}

\* user u is profile P: every claim P defines is there with P's value, and
\* nothing else is
IsProfile(u, P) ==
  /\ DOMAIN u \subseteq Fields
  /\ \A f \in Fields :
       IF P[f] = Undefined THEN f \notin DOMAIN u ELSE f \in DOMAIN u /\ u[f] = P[f]

\* C8: the credential GET /auth/token issues for the claims P of the identity
\* token verifies, at every second before its expiration, to a user equal to
\* P; the user auth attaches and the user GET /auth/logged_in returns for it
\* are P too, and so is the user a poll returns for the cookie it was sent.
RoundTrip ==
  /\ (served.ep = "token" /\ served.res.setCookie.op = "set") =>
       LET P   == served.reply.id_token.claims
           tok == served.res.setCookie.value
       IN  /\ IsProfile(served.res.body.user, P)
           /\ \A t \in ClockSeconds :
                (served.at <= t /\ t < tok.payload.exp) =>
                  /\ jwtVerify(tok, tokenSecret, t).ok
                  /\ IsProfile(jwtVerify(tok, tokenSecret, t).decoded.user, P)
                  /\ IsProfile(auth(tok, t).user, P)
                  /\ IsProfile(LoggedInHandler(tok, t).res.body.user, P)
  /\ (served.ep = "logged_in" /\ served.res.body.loggedIn) =>
       /\ served.cookie.kind = "jwt"
       /\ served.res.body.user = served.cookie.payload.user
       /\ served.res.setCookie.op = "set"
       /\ served.res.setCookie.value.payload.user = served.cookie.payload.user

\* C8 happens: a credential is issued for a profile with all three claims
RoundTripWitness ==
  /\ served.ep = "token"
  /\ served.res.setCookie.op = "set"
  /\ \A f \in Fields : served.reply.id_token.claims[f] # Undefined
  /\ \E t \in ClockSeconds :
       /\ t > served.at
       /\ jwtVerify(served.res.setCookie.value, tokenSecret, t).ok

\* C9: every credential, on both issuing paths, expires 36000 seconds after
\* the second it is issued in; a credential the server signed is rejected
\* when presented after its expiration (401 from /user/posts, loggedIn false
\* from /auth/logged_in) and accepted when presented before it.
ExpirationIsIssuePlusLifetime ==
  /\ served.res.setCookie.op = "set" =>
       /\ served.ep \in {"token", "logged_in"}
       /\ served.res.setCookie.value.payload.iat = served.at
       /\ served.res.setCookie.value.payload.exp = served.at + 36000
  /\ (served.ep \in {"posts", "logged_in"} /\ served.cookie \in issued) =>
       LET exp      == served.cookie.payload.exp
           accepted == IF served.ep = "posts"
                         THEN served.res.status # 401
                         ELSE served.res.body.loggedIn
       IN  /\ served.at > exp => ~accepted
           /\ served.at < exp => accepted

\* C9 happens: a credential the server signed is presented after its
\* expiration and rejected
ExpiredRejectedWitness ==
  /\ served.ep \in {"posts", "logged_in"}
  /\ served.cookie \in issued
  /\ served.at > served.cookie.payload.exp
  /\ served.res.setCookie = NoSetCookie
  /\ served.res.status \in {200, 401}

\* C10: a request through auth leaves the session alone: GET /user/posts,
\* admitted or not, sets no cookie, so the client's cookie is what it was; and
\* a credential admitted once is admitted at every second before its
\* expiration.
AuthIsReadOnly ==
  served.ep = "posts" =>
    /\ served.res.setCookie = NoSetCookie
    /\ ApplySetCookie(jar, served.res.setCookie) = jar
    /\ jar = served.cookie
    /\ served.res.status # 401 =>
         \A t \in ClockSeconds :
           t < served.cookie.payload.exp =>
             /\ auth(served.cookie, t).admit
             /\ UserPostsHandler(served.cookie, served.reply, t).res.status # 401

\* C10 happens: a request with a valid cookie is admitted and the cookie
\* store still holds the credential it presented
AuthIsReadOnlyWitness ==
  /\ served.ep = "posts"
  /\ served.res.status = 200
  /\ served.at > served.cookie.payload.iat
  /\ jar = served.cookie

\* C11: every rejection by auth looks the same to the caller: status 401,
\* body {message: 'Unauthorized'}, no Set-Cookie, whatever was wrong with the
\* cookie -- and the same as the rejection any other cookie the client could
\* send at that second would get.
RejectionsIndistinguishable ==
  (served.ep = "posts" /\ served.res.status = 401) =>
    /\ served.res = Response(401, [message |-> "Unauthorized"], NoSetCookie)
    /\ \A c \in ClientCookies :
         ~ValidAt(c, served.at) =>
           UserPostsHandler(c, NoReply, served.at).res = served.res

\* C11 happens: a request with an expired credential is rejected at a moment
\* at which the client could also send an altered and a malformed cookie
RejectionsWitness ==
  /\ served.ep = "posts"
  /\ served.res.status = 401
  /\ SignedUnaltered(served.cookie)
  /\ \E c \in ClientCookies :
       c.kind = "jwt" /\ ~SignedUnaltered(c) /\ c # Forged

\* C13: no retry.  GET /auth/token makes one POST to the provider when the
\* request carries a code and none otherwise; an admitted GET /user/posts
\* makes one GET to the downstream resource; a failed call is answered 500
\* with that one call made; the other routes make no outbound call.
NoRetry ==
  /\ served.ep = "token" =>
       /\ Len(served.outbound) <= 1
       /\ served.outbound =
            (IF served.code \in {"<absent>", ""} THEN <<>> ELSE <<PostToProvider>>)
       /\ served.reply.kind \in {"network_error", "non2xx"} =>
            served.res.status = 500
  /\ served.ep = "posts" =>
       /\ served.outbound =
            (IF served.res.status = 401 THEN <<>> ELSE <<GetPosts>>)
       /\ served.reply.kind = "error" => served.res.status = 500
  /\ served.ep \in {"logged_in", "logout"} => served.outbound = <<>>

\* C13 happens: the provider call fails and the exchange is answered 500
\* after the one call
NoRetryWitness ==
  /\ served.ep = "token"
  /\ served.reply.kind = "network_error"
  /\ served.res.status = 500
  /\ served.outbound = <<PostToProvider>>

\* C15: POST /auth/logout is unconditional: whatever cookie the request
\* carries, it answers 200 with the confirmation message and clears the
\* `token` cookie.
LogoutUnconditional ==
  served.ep = "logout" =>
    /\ served.res = Response(200, [message |-> "Logged out"], ClearCookie)
    /\ served.outbound = <<>>

\* C15 happens: a logout request carrying a cookie that auth would reject is
\* answered with the confirmation
LogoutUnconditionalWitness ==
  /\ served.ep = "logout"
  /\ served.cookie.kind = "jwt"
  /\ ~ValidAt(served.cookie, served.at)
  /\ served.res.status = 200
  /\ served.res.setCookie = ClearCookie

\* C18: on GET /auth/token with a code, a failed provider call (network
\* failure, non-2xx answer) and an identity token that does not decode are
\* answered 500 without a cookie; 400 is answered only for a missing code and
\* for a missing id_token.
ExchangeFailuresAre500 ==
  served.ep = "token" =>
    /\ served.res.status \in {200, 400, 500}
    /\ (/\ served.code \notin {"<absent>", ""}
        /\ \/ served.reply.kind \in {"network_error", "non2xx"}
           \/ (served.reply.kind = "ok" /\ served.reply.id_token.kind = "undecodable"))
         => (served.res.status = 500 /\ served.res.setCookie = NoSetCookie)
    /\ served.res.status = 400 =>
         \/ served.code \in {"<absent>", ""}
         \/ (served.reply.kind = "ok"
               /\ served.reply.id_token.kind \in {"absent", "empty"})

\* C18 happens: the provider answers with an identity token that does not
\* decode and the exchange is answered 500
UndecodableWitness ==
  /\ served.ep = "token"
  /\ served.reply.kind = "ok"
  /\ served.reply.id_token.kind = "undecodable"
  /\ served.res.status = 500

\* the request was accepted: admitted by auth, or answered loggedIn: true
Accepted ==
  \/ served.ep = "posts" /\ served.res.status # 401
  \/ served.ep = "logged_in" /\ served.res.body.loggedIn

\* the identity the accepted request resolved to
ResolvedUser ==
  IF served.ep = "posts" THEN auth(served.cookie, served.at).user
  ELSE served.res.body.user

\* C12: an accepted request presents a credential that the server issued
\* earlier in the run, in a chain of refreshes that began with a successful
\* GET /auth/token, and the identity it resolves to is the profile of that
\* exchange.
CausalOrder ==
  Accepted =>
    /\ served.cookie \in issued
    /\ served.cookie.payload.iat <= served.at
    /\ served.origins # {}
    /\ \A o \in served.origins :
         /\ o.since <= served.cookie.payload.iat
         /\ IsProfile(ResolvedUser, o.profile)

\* C12 happens: a request is admitted with a credential that a refresh
\* issued, after the exchange that began its chain
CausalOrderWitness ==
  /\ served.ep = "posts"
  /\ Accepted
  /\ \E o \in served.origins : o.since < served.cookie.payload.iat

\* C17: every credential of a chain embeds exactly the profile of the
\* exchange the chain began with, and a successful poll returns that profile
\* and re-signs it unchanged.
RefreshPreservesIdentity ==
  /\ \A o \in origin : IsProfile(o.cred.payload.user, o.profile)
  /\ (served.ep = "logged_in" /\ served.res.body.loggedIn) =>
       /\ served.origins # {}
       /\ served.res.setCookie.op = "set"
       /\ \A o \in served.origins :
            /\ IsProfile(served.res.body.user, o.profile)
            /\ IsProfile(served.res.setCookie.value.payload.user, o.profile)

\* C17 happens: a poll succeeds with a credential that is itself the result
\* of a refresh, for a profile that lacks a claim
RefreshPreservesIdentityWitness ==
  /\ served.ep = "logged_in"
  /\ served.res.body.loggedIn
  /\ \E o \in served.origins :
       /\ o.since < served.cookie.payload.iat
       /\ \E f \in Fields : o.profile[f] = Undefined

\* C19: GET /user/posts never extends the session: a credential the server
\* signed is rejected there from 36000 seconds after its own issuance on and
\* admitted before.  A poll with a credential younger than 36000 seconds
\* succeeds and issues one that is good for 36000 seconds from the poll, so a
\* session that keeps polling is accepted at any age.
SlidingVersusFixed ==
  /\ (served.ep = "posts" /\ served.cookie \in issued) =>
       /\ served.res.status = 401 <=> served.at >= served.cookie.payload.iat + 36000
       /\ served.res.setCookie = NoSetCookie
  /\ (served.ep = "logged_in" /\ served.cookie \in issued
        /\ served.at < served.cookie.payload.iat + 36000) =>
       /\ served.res.body.loggedIn
       /\ served.res.setCookie.op = "set"
       /\ served.res.setCookie.value.payload.iat = served.at
       /\ \A t \in ClockSeconds :
            (served.at <= t /\ t < served.at + 36000) =>
              auth(served.res.setCookie.value, t).admit

\* C19 happens: a request is accepted in a session that began 36000 seconds
\* or more ago
SlidingWitness ==
  /\ Accepted
  /\ \E o \in served.origins : served.at >= o.since + 36000

\* C20: once the client has applied a logout response, its `token` cookie
\* stays absent until the response of a successful GET /auth/token arrives,
\* also when responses of polls sent before the logout arrive after it.
LogoutIsFinal == loggedOut => jar = NoCookie

\* the index of the first piece of s that is the separator sep
FirstAt(s, sep) ==
  CHOOSE i \in 1..Len(s) : s[i] = sep /\ \A j \in 1..(i - 1) : s[j] # sep

RECURSIVE Split(_, _)
\* the parts of s between the separators
Split(s, sep) ==
  IF \A i \in 1..Len(s) : s[i] # sep THEN <<s>>
  ELSE <<SubSeq(s, 1, FirstAt(s, sep) - 1)>>
         \o Split(SubSeq(s, FirstAt(s, sep) + 1, Len(s)), sep)

\* the parameters a recipient reads off a URL: the part after the first `?`,
\* cut at every `&`, each part cut at its first `=`, both sides decoded
Params(url) ==
  LET query == SubSeq(url, FirstAt(url, "?") + 1, Len(url))
      parts == Split(query, "&")
  IN  {[key   |-> decodeComponent(SubSeq(parts[i], 1, FirstAt(parts[i], "=") - 1)),
        value |-> decodeComponent(SubSeq(parts[i], FirstAt(parts[i], "=") + 1,
                                         Len(parts[i])))] :
         i \in {j \in 1..Len(parts) : \E n \in 1..Len(parts[j]) : parts[j][n] = "="}}

\* the value of parameter k of a URL, undefined when the URL has none
Parameter(url, k) ==
  IF \E p \in Params(url) : p.key = <<k>>
    THEN Text((CHOOSE p \in Params(url) : p.key = <<k>>).value)
    ELSE UndefinedText

\* C14 as stated: whatever the environment sets or leaves unset, the URL that
\* GET /auth/url returns carries response_type=code, prompt=consent and a
\* client_id parameter equal to the configured client id, and every call
\* returns the same URL.
AuthUrlCarriesClientId ==
  served.ep = "url" =>
    LET url == served.res.body.url
    IN  /\ Parameter(url, "response_type") = Text(<<"code">>)
        /\ Parameter(url, "prompt") = Text(<<"consent">>)
        /\ Parameter(url, "client_id").defined
        /\ Parameter(url, "client_id") = config.clientId
        /\ probe.ep = "url" => probe.res.body.url = url

\* C14 as amended: the URL carries response_type=code and prompt=consent, and
\* a client_id parameter that decodes to the configured client id when the
\* environment sets one (the empty string included); it carries no client_id
\* parameter when the environment sets none.  Every call returns the same URL.
AuthUrlCarriesClientIdIfSet ==
  served.ep = "url" =>
    LET url == served.res.body.url
    IN  /\ served.res.status = 200
        /\ served.outbound = <<>>
        /\ Parameter(url, "response_type") = Text(<<"code">>)
        /\ Parameter(url, "prompt") = Text(<<"consent">>)
        /\ Parameter(url, "client_id").defined = config.clientId.defined
        /\ Parameter(url, "client_id") = config.clientId
        /\ probe.ep = "url" => probe.res = served.res

\* a second call, at a later time, of a server whose environment sets no client id
AuthUrlWitness ==
  /\ served.ep = "url"
  /\ ~config.clientId.defined
  /\ probe.ep = "url"
  /\ probe.at < served.at

\* the server answered the request of `served` and that of `probe` to the same
\* cookie, query and reply of the external service, at the same time
SameRequest ==
  /\ served.ep # "none"
  /\ served.ep = probe.ep
  /\ served.cookie = probe.cookie
  /\ served.code = probe.code
  /\ served.reply = probe.reply
  /\ served.at = probe.at

\* what the handlers make of the cookie, the query, the time and the external
\* reply of an exchange x, and of the configuration
Answer(x) ==
  CASE x.ep = "url"       -> AuthUrlHandler(config)
    [] x.ep = "token"     -> AuthTokenHandler(x.code, x.reply, x.at)
    [] x.ep = "logged_in" -> LoggedInHandler(x.cookie, x.at)
    [] x.ep = "logout"    -> LogoutHandler
    [] x.ep = "posts"     -> UserPostsHandler(x.cookie, x.reply, x.at)

\* C16: the response to a request (status, body, cookie effect), and what the
\* server sends to the external services for it, is the same as the response
\* to any earlier request with the same cookie, query and external reply at
\* the same time, whatever requests were served in between; and it is what
\* the handlers make of the request's cookie and query, the time, the
\* configuration and the external reply alone.
Stateless ==
  /\ SameRequest => served.res = probe.res /\ served.outbound = probe.outbound
  /\ served.ep # "none" => served.res = Answer(served).res

\* a successful exchange repeated after the server has signed credentials that
\* it had not signed when it answered the first one
StatelessWitness ==
  /\ SameRequest
  /\ served.ep = "token"
  /\ served.res.status = 200
  /\ probe.issuedBefore = {}
  /\ served.issuedBefore # {}

====
